---- MODULE Spec2Model ----
(***************************************************************************)
(* Model of tile-randomizer (src/main.py): the ChoiceSet selection         *)
(* primitive and the turn state machine of PuzzleApp (on_mount, make_step, *)
(* check_victory, on_key, on_button_pressed).                              *)
(*                                                                         *)
(* Strings of the source are rendered by English names:                    *)
(*   directions  "Вперёд" Forward, "Назад" Backward, "Влево" Left,         *)
(*               "Вправо" Right, "Вверх" Up, "Вниз" Down                   *)
(*   head kinds  "Правда" Truth, "Ложь" Lie, "Повтор" Repeat               *)
(*   "Выйди за поле" LeaveTheField, "Что-то пошло не так..." WentWrong     *)
(*   Python None is the string "None".                                     *)
(***************************************************************************)
EXTENDS Integers, Sequences, FiniteSets, TLC

VARIABLES
    running,            \* the Textual application has not exited
    length, width,      \* GameState.length, GameState.width (read_config)
    directions,         \* self.directions.data: direction -> weight
    pos, next_pos,      \* GameState.pos, GameState.next_pos: [row, column]
    head,               \* GameState.head
    waiting_for_exit,   \* self.waiting_for_exit (getattr default False)
    last,               \* history: what the last handler call did
    ancestor,           \* history: nearest non-Repeat head drawn since on_mount
    firstHead,          \* history: first head drawn since on_mount
    fwdTurns,           \* history: n if the calls since on_mount are n forced Forward, else -1
    victories,          \* history: number of times check_victory reported the win
    cs_data, cs_exclude, cs_result,  \* one ChoiceSet.choose call on arbitrary data
    flip_arg, flip_once, flip_twice  \* flip_direction applied once and twice to a direction

gameVars == <<running, length, width, directions, pos, next_pos, head,
              waiting_for_exit, last, ancestor, firstHead, fwdTurns, victories>>
flipVars == <<flip_arg, flip_once, flip_twice>>
csVars == <<cs_data, cs_exclude, cs_result, flip_arg, flip_once, flip_twice>>
vars == <<running, length, width, directions, pos, next_pos, head,
          waiting_for_exit, last, ancestor, firstHead, fwdTurns, victories,
          cs_data, cs_exclude, cs_result, flip_arg, flip_once, flip_twice>>

----------------------------------------------------------------------------
(* Bounds *)

MaxLength == 4
MaxWidth == 4
MaxItems == 2

----------------------------------------------------------------------------
(* Vocabulary *)

None == "None"

\* Axis(IntEnum): Y = 0, X = 1
AxisY == 0
AxisX == 1

\* a position list [row, column], indexed by Axis
Position(row, col) == [a \in {AxisY, AxisX} |-> IF a = AxisY THEN row ELSE col]

Cardinals == {"Forward", "Backward", "Left", "Right"}
Decoys == {"Up", "Down"}
DirectionNames == Cardinals \cup Decoys

HeadKinds == {"Truth", "Lie", "Repeat"}

ExhaustedOptions == "ExhaustedOptions"   \* ValueError raised by choose
TotalWeightError == "TotalWeightError"   \* ValueError raised by random.choices
TypeErrorResult == "TypeError"
NoError == "NoError"
Errors == {ExhaustedOptions, TotalWeightError, TypeErrorResult}

\* self.heads = ChoiceSet("Головы", ["Правда", "Ложь", "Повтор"])
heads == [kind |-> "list", items |-> <<"Truth", "Lie", "Repeat">>]

----------------------------------------------------------------------------
(* ChoiceSet.choose *)

RECURSIVE SumWeights(_, _)
SumWeights(w, keys) ==
    IF keys = {} THEN 0
    ELSE LET k == CHOOSE x \in keys : TRUE
         IN w[k] + SumWeights(w, keys \ {k})

\* mutant: the filter keeps the excluded options instead of the others
ChooseKeepsExcluded(data, exclude) ==
    IF data.kind = "list" THEN
        LET options == {data.items[i] : i \in DOMAIN data.items} \cap exclude
        IN IF options = {} THEN {ExhaustedOptions} ELSE options
    ELSE
        LET options == DOMAIN data.weights \cap exclude
        IN IF options = {} THEN {ExhaustedOptions}
           ELSE IF SumWeights(data.weights, options) <= 0 THEN {TotalWeightError}
           ELSE {k \in options : data.weights[k] > 0}

\* mutant: the emptiness check is skipped for an exclusion that leaves nothing
ChooseIgnoresExclude(data, exclude) ==
    IF data.kind = "list" THEN
        LET options == {data.items[i] : i \in DOMAIN data.items}
        IN IF options = {} THEN {ExhaustedOptions} ELSE options
    ELSE
        LET options == DOMAIN data.weights
        IN IF options = {} THEN {ExhaustedOptions}
           ELSE IF SumWeights(data.weights, options) <= 0 THEN {TotalWeightError}
           ELSE {k \in options : data.weights[k] > 0}

\* The set of outcomes one call choose(exclude) can have: the options it can
\* return, or the single error it raises.  random.choice returns any element of
\* the filtered list; random.choices raises ValueError when the remaining
\* weights total <= 0 and otherwise returns a key of positive weight.
Choose(data, exclude) ==
    IF data.kind = "list" THEN
        LET options == {data.items[i] : i \in DOMAIN data.items} \ exclude
        IN IF options = {} THEN {ExhaustedOptions} ELSE options
    ELSE IF data.kind = "dict" THEN
        LET options == DOMAIN data.weights \ exclude
        IN IF options = {} THEN {ExhaustedOptions}
           ELSE IF SumWeights(data.weights, options) <= 0 THEN {TotalWeightError}
           ELSE {k \in options : data.weights[k] > 0}
    ELSE {TypeErrorResult}

----------------------------------------------------------------------------
(* Pure helpers of the turn *)

\* determine_honesty(current_head, previous_head): TRUE means lying
determine_honesty(current_head, previous_head) ==
    LET head_type == IF current_head = "Repeat" THEN previous_head ELSE current_head
    IN head_type = "Lie"

\* mutant: the entry for Down maps to itself
flip_directionDownFixed(right_direction) ==
    CASE right_direction = "Forward" -> "Backward"
      [] right_direction = "Backward" -> "Forward"
      [] right_direction = "Left" -> "Right"
      [] right_direction = "Right" -> "Left"
      [] right_direction = "Up" -> "Down"
      [] right_direction = "Down" -> "Down"
      [] OTHER -> "WentWrong"

\* flip_direction: mapping.get(right_direction, "Что-то пошло не так...")
flip_direction(right_direction) ==
    CASE right_direction = "Forward" -> "Backward"
      [] right_direction = "Backward" -> "Forward"
      [] right_direction = "Left" -> "Right"
      [] right_direction = "Right" -> "Left"
      [] right_direction = "Up" -> "Down"
      [] right_direction = "Down" -> "Up"
      [] OTHER -> "WentWrong"

\* mutant: a lying head always says the flipped direction
direction_textNoSentinel(head_type, previous_head_type, straight_direction, banned) ==
    IF determine_honesty(head_type, previous_head_type)
    THEN flip_direction(straight_direction)
    ELSE straight_direction

\* get_head_text: the direction_text the head says
direction_text(head_type, previous_head_type, straight_direction, banned) ==
    LET is_lying == determine_honesty(head_type, previous_head_type)
        candidate == flip_direction(straight_direction)
    IN IF is_lying
       THEN (IF candidate \notin banned THEN candidate ELSE "LeaveTheField")
       ELSE straight_direction

\* translate_direction: keyboard direction -> game direction
translate_direction(dir_eng) ==
    CASE dir_eng = "shift+up" -> "Up"
      [] dir_eng = "shift+down" -> "Down"
      [] dir_eng = "left" -> "Left"
      [] dir_eng = "right" -> "Right"
      [] dir_eng = "up" -> "Forward"
      [] dir_eng = "down" -> "Backward"

\* mutant: Backward is not banned at row 0
MovementBannedNoBackward(p, len, wid) ==
    (IF p[AxisY] + 1 > len - 1 THEN {"Forward"} ELSE {})
    \cup (IF p[AxisX] - 1 < 0 THEN {"Left"} ELSE {})
    \cup (IF p[AxisX] + 1 > wid - 1 THEN {"Right"} ELSE {})

\* mutant: the inverses are banned together with the boundary directions
MovementBannedWithInverses(p, len, wid) ==
    (IF p[AxisY] - 1 < 0 \/ p[AxisY] + 1 > len - 1 THEN {"Backward", "Forward"} ELSE {})
    \cup (IF p[AxisX] - 1 < 0 \/ p[AxisX] + 1 > wid - 1 THEN {"Left", "Right"} ELSE {})

\* mutant: Forward is banned one row early (>= instead of >)
MovementBannedForwardEarly(p, len, wid) ==
    (IF p[AxisY] - 1 < 0 THEN {"Backward"} ELSE {})
    \cup (IF p[AxisY] + 1 >= len - 1 THEN {"Forward"} ELSE {})
    \cup (IF p[AxisX] - 1 < 0 THEN {"Left"} ELSE {})
    \cup (IF p[AxisX] + 1 > wid - 1 THEN {"Right"} ELSE {})

\* make_step: the boundary checks that fill banned before the head is drawn
MovementBanned(p, len, wid) ==
    (IF p[AxisY] - 1 < 0 THEN {"Backward"} ELSE {})
    \cup (IF p[AxisY] + 1 > len - 1 THEN {"Forward"} ELSE {})
    \cup (IF p[AxisX] - 1 < 0 THEN {"Left"} ELSE {})
    \cup (IF p[AxisX] + 1 > wid - 1 THEN {"Right"} ELSE {})

\* mutant: the ban set is extended for every head
ExtendsBanAlways(new_head, previous_head) == TRUE

\* mutant: a Repeat head never extends the ban set
ExtendsBanLieOnly(new_head, previous_head) == new_head = "Lie"

\* make_step: the condition under which banned is extended
ExtendsBan(new_head, previous_head) ==
    new_head = "Lie" \/ (new_head = "Repeat" /\ previous_head = "Lie")

\* mutant: at row 0 the inverse of Backward is not appended
BanExtensionNoForward(p, len, wid) ==
    (IF p[AxisY] + 1 > len - 1 THEN {"Backward"} ELSE {})
    \cup (IF p[AxisX] - 1 < 0 THEN {"Right"} ELSE {})
    \cup (IF p[AxisX] + 1 > wid - 1 THEN {"Left"} ELSE {})

\* make_step: the directions appended to banned for a lying head
BanExtension(p, len, wid) ==
    (IF p[AxisY] - 1 < 0 THEN {"Forward"} ELSE {})
    \cup (IF p[AxisY] + 1 > len - 1 THEN {"Backward"} ELSE {})
    \cup (IF p[AxisX] - 1 < 0 THEN {"Right"} ELSE {})
    \cup (IF p[AxisX] + 1 > wid - 1 THEN {"Left"} ELSE {})

\* mutant: a forced direction is never checked against banned
ForcedAllowedAlways(forced, banned) == TRUE

\* make_step: if forced not in banned (None is in no ban list)
ForcedAllowed(forced, banned) == forced \notin banned

\* mutant: Repeat is never excluded from the head draw
HeadExcludeNothing(h) == {}

\* make_step: exclude=["Повтор"] if state.head is None else no exclusion
HeadExclude(h) == IF h = None THEN {"Repeat"} ELSE {}

\* mutant: the goal row is compared with length instead of length - 1
VictoryReachedAtLength(p, len) == p[AxisY] = len

\* mutant: the handlers never see the pending exit
ExitPendingNever(flag) == FALSE

\* mutant: Up and Down move like Forward and Backward
DisplacementDecoysMove(direction) ==
    CASE direction \in {"Forward", "Up"} -> <<1, 0>>
      [] direction \in {"Backward", "Down"} -> <<-1, 0>>
      [] direction = "Left" -> <<0, -1>>
      [] direction = "Right" -> <<0, 1>>
      [] OTHER -> <<0, 0>>

\* mutant: Forward moves two rows
DisplacementForwardTwo(direction) ==
    CASE direction = "Forward" -> <<2, 0>>
      [] direction = "Backward" -> <<-1, 0>>
      [] direction = "Left" -> <<0, -1>>
      [] direction = "Right" -> <<0, 1>>
      [] OTHER -> <<0, 0>>

\* make_step: (dy, dx) of a direction, (0, 0) for any other
Displacement(direction) ==
    CASE direction = "Forward" -> <<1, 0>>
      [] direction = "Backward" -> <<-1, 0>>
      [] direction = "Left" -> <<0, -1>>
      [] direction = "Right" -> <<0, 1>>
      [] OTHER -> <<0, 0>>

\* make_step: state.next_pos[Axis.Y] += dy; state.next_pos[Axis.X] += dx
Moved(p, direction) ==
    Position(p[AxisY] + Displacement(direction)[1],
             p[AxisX] + Displacement(direction)[2])

\* check_victory: the condition that sets waiting_for_exit
VictoryReached(p, len) == p[AxisY] = len - 1

\* on_key / on_button_pressed: getattr(self, "waiting_for_exit", False)
ExitPending(flag) == flag

----------------------------------------------------------------------------
(* Configuration and initial state *)

\* read_config: length <= 0 or width <= 0 is rejected
Lengths == 1..MaxLength
Widths == 1..MaxWidth

\* read_config: directions_data, a weight per direction, not validated.
\* Only the sign of a weight decides which outcomes a draw has; the tables
\* give one weight to the four cardinal directions and one to the two decoys.
WeightValues == {0, 1}
DirectionTables ==
    {[kind |-> "dict",
      weights |-> [d \in DirectionNames |-> IF d \in Cardinals THEN c ELSE u]]
        : c \in WeightValues, u \in WeightValues}

PositiveWeights(data) == \A d \in DOMAIN data.weights : data.weights[d] > 0

\* what a handler call did; the fields of a call that did not reach them
Idle ==
    [op |-> "mount", forced |-> None, drew |-> FALSE, banned |-> {},
     drawBanned |-> {}, extended |-> FALSE, lying |-> FALSE,
     direction |-> None, announced |-> None, error |-> NoError,
     victory |-> FALSE]

\* on_mount: self.state = GameState(pos=[0, width // 2], next_pos=[0, width // 2], head=None, ...)
StartPosition(wid) == Position(0, wid \div 2)

csIdle ==
    /\ cs_data = [kind |-> "list", items |-> <<>>]
    /\ cs_exclude = {}
    /\ cs_result = "idle"
    /\ flip_arg = "idle"
    /\ flip_once = "idle"
    /\ flip_twice = "idle"

InitGame(lengths, widths) ==
    /\ running = TRUE
    /\ length \in lengths
    /\ width \in widths
    /\ directions \in DirectionTables
    /\ pos = StartPosition(width)
    /\ next_pos = StartPosition(width)
    /\ head = None
    /\ waiting_for_exit = FALSE
    /\ last = Idle
    /\ ancestor = None
    /\ firstHead = None
    /\ fwdTurns = 0
    /\ victories = 0

Init == InitGame(Lengths, Widths) /\ csIdle

----------------------------------------------------------------------------
(* The turn *)

\* make_step(forced); forced = None is the random step
make_step(forced) ==
    LET committed == next_pos                       \* state.pos = state.next_pos.copy()
        victory == VictoryReached(committed, length) \* self.check_victory()
        banned == MovementBanned(committed, length, width)
        called == [Idle EXCEPT !.op = "step", !.forced = forced]
    IN
    /\ pos' = committed
    /\ waiting_for_exit' = (waiting_for_exit \/ victory)
    /\ victories' = IF victory THEN victories + 1 ELSE victories
    /\ fwdTurns' = IF forced = "Forward" /\ fwdTurns >= 0 THEN fwdTurns + 1 ELSE -1
    /\ UNCHANGED <<length, width, directions>>
    /\ IF waiting_for_exit \/ victory THEN
          \* if getattr(self, "waiting_for_exit", False): return
          /\ last' = [called EXCEPT !.victory = victory]
          /\ UNCHANGED <<running, next_pos, head, ancestor, firstHead>>
       ELSE IF ~ForcedAllowed(forced, banned) THEN
          \* forced in banned: nothing but the redraw
          /\ last' = [called EXCEPT !.banned = banned, !.drawBanned = banned]
          /\ UNCHANGED <<running, next_pos, head, ancestor, firstHead>>
       ELSE
          \E h \in Choose(heads, HeadExclude(head)) :
            IF h \in Errors THEN
               /\ running' = FALSE
               /\ last' = [called EXCEPT !.banned = banned, !.drawBanned = banned,
                                          !.error = h]
               /\ UNCHANGED <<next_pos, head, ancestor, firstHead>>
            ELSE
               LET previous_head == head
                   extended == ExtendsBan(h, previous_head)
                   final == IF extended
                            THEN banned \cup BanExtension(committed, length, width)
                            ELSE banned
                   drawn == [called EXCEPT !.banned = banned, !.drawBanned = final,
                                           !.drew = TRUE, !.extended = extended,
                                           !.lying = determine_honesty(h, previous_head)]
               IN
               /\ head' = h
               /\ ancestor' = IF h = "Repeat" THEN ancestor ELSE h
               /\ firstHead' = IF firstHead = None THEN h ELSE firstHead
               /\ \E direction \in (IF forced # None THEN {forced}
                                     ELSE Choose(directions, final)) :
                     IF direction \in Errors THEN
                        /\ running' = FALSE
                        /\ last' = [drawn EXCEPT !.error = direction]
                        /\ UNCHANGED next_pos
                     ELSE
                        /\ next_pos' = Moved(next_pos, direction)
                        /\ last' = [drawn EXCEPT
                                      !.direction = direction,
                                      !.announced = direction_text(h, previous_head,
                                                                   direction, final)]
                        /\ UNCHANGED running

\* mutant: the restart keeps the last head kind
on_mountKeepsHead ==
    /\ pos' = StartPosition(width)
    /\ next_pos' = StartPosition(width)
    /\ last' = [Idle EXCEPT !.op = "restart"]
    /\ ancestor' = None
    /\ firstHead' = None
    /\ fwdTurns' = 0
    /\ UNCHANGED <<running, length, width, directions, waiting_for_exit,
                   victories, head>>

\* on_mount: the (re)construction of the game state
on_mount ==
    /\ pos' = StartPosition(width)
    /\ next_pos' = StartPosition(width)
    /\ head' = None
    /\ last' = [Idle EXCEPT !.op = "restart"]
    /\ ancestor' = None
    /\ firstHead' = None
    /\ fwdTurns' = 0
    /\ UNCHANGED <<running, length, width, directions, waiting_for_exit, victories>>

\* self.exit()
exit ==
    /\ running' = FALSE
    /\ last' = [Idle EXCEPT !.op = "exit"]
    /\ UNCHANGED <<length, width, directions, pos, next_pos, head,
                   waiting_for_exit, ancestor, firstHead, fwdTurns, victories>>

\* an event no branch handles
ignored ==
    /\ last' = [Idle EXCEPT !.op = "ignored"]
    /\ UNCHANGED <<running, length, width, directions, pos, next_pos, head,
                   waiting_for_exit, ancestor, firstHead, fwdTurns, victories>>

----------------------------------------------------------------------------
(* Input handlers *)

DirectionKeys == {"left", "up", "down", "right", "shift+up", "shift+down"}
\* event.key.lower(): "R" and "r", "Q" and "q" are the same key here
Keys == {"space"} \cup DirectionKeys \cup {"r", "q", "x"}

on_key(key) ==
    /\ running
    /\ key \in Keys
    /\ UNCHANGED csVars
    /\ IF ExitPending(waiting_for_exit) THEN exit
       ELSE IF key = "space" THEN make_step(None)
       ELSE IF key \in DirectionKeys THEN make_step(translate_direction(key))
       ELSE IF key = "r" THEN on_mount
       ELSE IF key = "q" THEN exit
       ELSE ignored

ButtonIds == {"random_step", "step_up", "step_down", "step_left", "step_right",
              "step_shift_plus_up", "step_shift_plus_down", "restart", "quit"}

\* id.replace("step_", "").replace("_plus_", "+")
ButtonDirection(id) ==
    CASE id = "step_up" -> "up"
      [] id = "step_down" -> "down"
      [] id = "step_left" -> "left"
      [] id = "step_right" -> "right"
      [] id = "step_shift_plus_up" -> "shift+up"
      [] id = "step_shift_plus_down" -> "shift+down"

on_button_pressed(id) ==
    /\ running
    /\ id \in ButtonIds
    /\ UNCHANGED csVars
    /\ IF ExitPending(waiting_for_exit) THEN exit
       ELSE IF id = "random_step" THEN make_step(None)
       ELSE IF id \in {"step_up", "step_down", "step_left", "step_right",
                       "step_shift_plus_up", "step_shift_plus_down"}
            THEN make_step(translate_direction(ButtonDirection(id)))
       ELSE IF id = "restart" THEN on_mount
       ELSE exit

KeyEvent == \E key \in Keys : on_key(key)
ButtonEvent == \E id \in ButtonIds : on_button_pressed(id)

Next == KeyEvent \/ ButtonEvent

Spec == Init /\ [][Next]_vars

----------------------------------------------------------------------------
(* The 8 x 5 grid of the forced-Forward walk *)

\* length = 8, width = 5
InitWalk == InitGame({8}, {5}) /\ csIdle

SpecWalk == InitWalk /\ [][Next]_vars

----------------------------------------------------------------------------
(* Forced Forward from any Playing state *)

Cells(len, wid) == {Position(r, c) : r \in 0..(len - 1), c \in 0..(wid - 1)}

\* The program states in which the game is Playing: before the first head
\* both positions are the start cell; afterwards pos is below the goal row
\* (a committed goal row sets waiting_for_exit) and next_pos is pos or a
\* neighbour of it in the grid.
PlayingShape ==
    /\ pos \in Cells(length, width)
    /\ next_pos \in Cells(length, width)
    /\ IF head = None
       THEN pos = StartPosition(width) /\ next_pos = StartPosition(width)
       ELSE /\ head \in HeadKinds
            /\ pos[AxisY] <= length - 2
            /\ next_pos \in {pos} \cup {Moved(pos, d) : d \in Cardinals}

\* a behaviour that starts in any Playing state, the history variables
\* counting from that state
InitForward ==
    /\ running = TRUE
    /\ length \in Lengths
    /\ width \in Widths
    /\ directions \in DirectionTables
    /\ head \in HeadKinds \cup {None}
    /\ pos \in Cells(length, width)
    /\ next_pos \in Cells(length, width)
    /\ PlayingShape
    /\ waiting_for_exit = FALSE
    /\ last = Idle
    /\ ancestor = (IF head = "Repeat" THEN "Truth" ELSE head)
    /\ firstHead = (IF head = None THEN None ELSE "Truth")
    /\ fwdTurns = 0
    /\ victories = 0
    /\ csIdle

\* the player keeps forcing Forward, by key or by button
ForwardKey == on_key("up")
ForwardButton == on_button_pressed("step_up")
NextForward == ForwardKey \/ ForwardButton

SpecForward == InitForward /\ [][NextForward]_vars /\ WF_vars(NextForward)

----------------------------------------------------------------------------
(* ChoiceSet.choose on arbitrary data *)

Options == {"a", "b", "c"}

\* list-backed data: any list of at most MaxItems options, repeats allowed
ListDatas ==
    {[kind |-> "list", items |-> items] :
        items \in UNION {[1..n -> Options] : n \in 0..MaxItems}}

\* weight-mapped data: at most MaxItems keys, each with a weight
DictDatas ==
    {[kind |-> "dict", weights |-> w] :
        w \in UNION {[K -> WeightValues] :
                        K \in {S \in SUBSET Options : Cardinality(S) <= MaxItems}}}

\* the options of a ChoiceSet: the list's elements, the mapping's keys
OptionsOf(data) ==
    IF data.kind = "list" THEN {data.items[i] : i \in DOMAIN data.items}
    ELSE DOMAIN data.weights

InitChoose ==
    /\ InitGame({MaxLength}, {MaxWidth})
    /\ PositiveWeights(directions)
    /\ cs_data \in ListDatas \cup DictDatas
    /\ cs_exclude \in SUBSET Options
    /\ cs_result = "idle"
    /\ flip_arg \in DirectionNames
    /\ flip_once = "idle"
    /\ flip_twice = "idle"

choose_call ==
    /\ cs_result = "idle"
    /\ cs_result' \in Choose(cs_data, cs_exclude)
    /\ UNCHANGED <<cs_data, cs_exclude>>
    /\ UNCHANGED flipVars
    /\ UNCHANGED gameVars

\* flip_direction(flip_arg)
flip_call ==
    /\ flip_once = "idle"
    /\ flip_once' = flip_direction(flip_arg)
    /\ UNCHANGED <<flip_arg, flip_twice, cs_data, cs_exclude, cs_result>>
    /\ UNCHANGED gameVars

\* flip_direction applied to the result of the first call
flip_again ==
    /\ flip_once # "idle"
    /\ flip_twice = "idle"
    /\ flip_twice' = flip_direction(flip_once)
    /\ UNCHANGED <<flip_arg, flip_once, cs_data, cs_exclude, cs_result>>
    /\ UNCHANGED gameVars

NextChoose == choose_call \/ flip_call \/ flip_again

SpecChoose == InitChoose /\ [][NextChoose]_vars

----------------------------------------------------------------------------
(* Properties *)

InGrid(p) ==
    /\ 0 <= p[AxisY] /\ p[AxisY] <= length - 1
    /\ 0 <= p[AxisX] /\ p[AxisX] <= width - 1

\* C1: after any sequence of steps (random or forced) and restarts, the
\* committed position pos and the staged position next_pos both lie in
\* [0, length-1] x [0, width-1].
C1_PositionsInGrid == InGrid(pos) /\ InGrid(next_pos)

\* C1 witness: a random step at an edge drew a cardinal direction and moved.
C1_Witness ==
    /\ last.op = "step" /\ last.forced = None
    /\ last.banned # {} /\ last.direction \in Cardinals
    /\ next_pos # pos

\* C2 (as claimed): a Repeat head is treated as lying (ban set extended,
\* announcement inverted) exactly when the nearest preceding non-Repeat head
\* is Lie, however many Repeat heads lie in between.
C2_RepeatFollowsAncestor ==
    (last.op = "step" /\ last.drew /\ head = "Repeat")
        => /\ last.extended <=> (ancestor = "Lie")
           /\ last.lying <=> (ancestor = "Lie")

\* C3 (as claimed), on the 8 x 5 grid: each of seven consecutive forced
\* Forward turns from the start moves the player, row 7 is reached after the
\* 7th, and Won is reported exactly once, on the 7th turn.
C3_WonOnSeventhForward ==
    /\ fwdTurns \in 1..7 => next_pos[AxisY] = fwdTurns
    /\ (fwdTurns \in 1..7 /\ last.op = "step") => last.drew
    /\ fwdTurns \in 0..6 => (~waiting_for_exit /\ victories = 0)
    /\ fwdTurns = 7 => (waiting_for_exit /\ victories = 1)
    /\ victories <= 1

\* C3 (amended), on the 8 x 5 grid: each of seven consecutive forced Forward
\* turns from the start draws a head and stages one row further, so after the
\* 7th the staged position is (7,2) while the committed one is (6,2) and Won
\* has not been reported; the eighth call commits row 7 and reports Won, and
\* Won is reported at most once.
C3_WonOnEighthCall ==
    /\ (fwdTurns \in 1..7 /\ last.op = "step") =>
          /\ last.drew /\ last.direction = "Forward"
    /\ fwdTurns \in 1..7 =>
          /\ next_pos = Position(fwdTurns, 2)
          /\ pos = Position(fwdTurns - 1, 2)
          /\ ~waiting_for_exit /\ victories = 0
    /\ fwdTurns = 8 =>
          /\ pos = Position(7, 2) /\ next_pos = Position(7, 2)
          /\ waiting_for_exit /\ victories = 1
    /\ fwdTurns <= 8
    /\ victories <= 1

\* C3 witness: the eighth forced Forward call has reported the win.
C3_Witness == fwdTurns = 8 /\ waiting_for_exit /\ last.forced = "Forward"

\* C4 (as claimed): in every reachable state the game is Won if and only if
\* the committed position's row equals length - 1.
C4_WonIffGoalRow == waiting_for_exit <=> (pos[AxisY] = length - 1)

\* C5: once Won, no input draws a head or a direction or changes pos,
\* next_pos or the last head kind, and the game stays Won.
C5_WonAbsorbing ==
    [][waiting_for_exit =>
          /\ pos' = pos /\ next_pos' = next_pos /\ head' = head
          /\ waiting_for_exit'
          /\ ~last'.drew /\ last'.direction = None]_vars

\* C5 witness: an input arrived in the Won state.
C5_Witness == waiting_for_exit /\ ~running /\ last.op = "exit"

\* C6 (as claimed): a step whose forced direction is in the movement ban set
\* draws no head, raises no error and changes neither pos nor next_pos.
C6_BannedForcedChangesNothing ==
    [][(last'.op = "step" /\ last'.forced \in last'.banned) =>
          /\ ~last'.drew /\ head' = head
          /\ last'.error = NoError /\ running'
          /\ next_pos' = next_pos
          /\ pos' = pos]_vars

\* C6 (amended): a step whose forced direction is in the movement ban set
\* draws no head, raises no error and leaves next_pos unchanged; pos becomes
\* the previously staged next_pos, so it changes when a move was pending.
C6_BannedForcedOnlyCommits ==
    [][(last'.op = "step" /\ last'.forced \in last'.banned) =>
          /\ ~last'.drew /\ head' = head
          /\ last'.error = NoError /\ running'
          /\ next_pos' = next_pos
          /\ pos' = next_pos]_vars

\* C6 witness: a banned forced direction was given after a head had been drawn.
C6_Witness ==
    /\ last.op = "step" /\ last.forced \in last.banned
    /\ head # None /\ pos = next_pos /\ pos # StartPosition(width)

\* C7: the first head drawn since the start or a restart is never Repeat; a
\* Repeat head is only drawn after an earlier head of this run.
C7_FirstHeadNotRepeat ==
    /\ firstHead # "Repeat"
    /\ head = "Repeat" => firstHead \in {"Truth", "Lie"}

\* C7 witness: a Repeat head was drawn after the first head of the run.
C7_Witness == firstHead \in {"Truth", "Lie"} /\ head = "Repeat" /\ last.drew

\* C8: choose(E) returns only an option of the data that is not in E, and it
\* raises the exhausted-options error exactly when every option is in E.
C8_ChooseRespectsExclusion ==
    cs_result # "idle" =>
        /\ cs_result \notin Errors => cs_result \in OptionsOf(cs_data) \ cs_exclude
        /\ (cs_result = ExhaustedOptions) <=> (OptionsOf(cs_data) \subseteq cs_exclude)

\* C8 witness: a weighted draw with an effective exclusion returned a key.
C8_Witness ==
    /\ cs_data.kind = "dict" /\ cs_result \in Options
    /\ cs_exclude \cap OptionsOf(cs_data) # {}

\* C9: with length >= 2, width >= 2 and positive direction weights no draw
\* of a turn (head kind or actual direction) fails.
C9_NoDrawFails ==
    (length >= 2 /\ width >= 2 /\ PositiveWeights(directions))
        => last.error = NoError

\* C9 witness: a lying head in a corner left only the decoys and one was drawn.
C9_Witness ==
    /\ length >= 2 /\ width >= 2 /\ PositiveWeights(directions)
    /\ last.forced = None /\ Cardinals \subseteq last.drawBanned
    /\ last.direction \in Decoys

\* C10 (as claimed): with length >= 2 and width >= 2 the ban set passed to
\* the actual-direction draw never contains all four cardinal directions.
C10_NeverAllCardinalsBanned ==
    (length >= 2 /\ width >= 2 /\ last.drew)
        => ~(Cardinals \subseteq last.drawBanned)

\* C10 (amended): with length >= 2 and width >= 2 the movement ban set never
\* contains all four cardinal directions; the ban set passed to the draw
\* contains all four exactly when the head is lying in a corner of row 0, and
\* it never contains Up or Down.
C10_AllCardinalsOnlyLyingCorner ==
    (length >= 2 /\ width >= 2 /\ last.drew) =>
        /\ ~(Cardinals \subseteq last.banned)
        /\ (Cardinals \subseteq last.drawBanned)
              <=> (last.lying /\ pos[AxisY] = 0 /\ pos[AxisX] \in {0, width - 1})
        /\ last.drawBanned \cap Decoys = {}

\* C10 witness: a turn drew its direction with all four cardinals banned.
C10_Witness ==
    /\ length >= 2 /\ width >= 2 /\ last.drew
    /\ Cardinals \subseteq last.drawBanned

\* the inverse pairs as the specification states them: Forward/Backward,
\* Left/Right, Up/Down
InversePairs ==
    {<<"Forward", "Backward">>, <<"Backward", "Forward">>,
     <<"Left", "Right">>, <<"Right", "Left">>,
     <<"Up", "Down">>, <<"Down", "Up">>}
InverseOf(d) == CHOOSE e \in DirectionNames : <<d, e>> \in InversePairs

\* the cell a direction's displacement leads to, from the specification's table
Target(p, d) ==
    CASE d = "Forward" -> Position(p[AxisY] + 1, p[AxisX])
      [] d = "Backward" -> Position(p[AxisY] - 1, p[AxisX])
      [] d = "Left" -> Position(p[AxisY], p[AxisX] - 1)
      [] d = "Right" -> Position(p[AxisY], p[AxisX] + 1)
      [] OTHER -> p

\* a step that went past the victory check and computed its ban set
TurnResolved == last.op = "step" /\ ~last.victory

\* C11: on every turn the movement ban set computed from the committed
\* position is exactly the set of directions whose displacement leaves the
\* grid: Backward iff row = 0, Forward iff row = length-1, Left iff col = 0,
\* Right iff col = width-1, and never Up or Down.
C11_MovementBanExact ==
    TurnResolved =>
        /\ last.banned = {d \in DirectionNames : ~InGrid(Target(pos, d))}
        /\ ("Backward" \in last.banned) <=> (pos[AxisY] = 0)
        /\ ("Forward" \in last.banned) <=> (pos[AxisY] = length - 1)
        /\ ("Left" \in last.banned) <=> (pos[AxisX] = 0)
        /\ ("Right" \in last.banned) <=> (pos[AxisX] = width - 1)
        /\ last.banned \cap Decoys = {}

\* C11 witness: a turn resolved in a corner, with two moves banned, after a move.
C11_Witness ==
    /\ TurnResolved /\ last.banned = {"Backward", "Left"}
    /\ width >= 3 /\ last.drew

\* C12: on a turn that draws a head the announced direction is the actual one
\* when the head is truthful; when it lies it is the inverse of the actual one
\* unless that inverse is in the turn's ban set, and then the sentinel; a
\* lying head never announces a direction of the ban set.
C12_AnnouncedDirection ==
    (last.op = "step" /\ last.drew /\ last.error = NoError) =>
        /\ ~last.lying => last.announced = last.direction
        /\ last.lying =>
              /\ last.announced =
                    IF InverseOf(last.direction) \in last.drawBanned
                    THEN "LeaveTheField" ELSE InverseOf(last.direction)
              /\ last.announced \notin last.drawBanned

\* C12 witness: a lying head had no legal direction to announce.
C12_Witness ==
    /\ last.op = "step" /\ last.lying
    /\ last.announced = "LeaveTheField"

\* C13 (as claimed): a mapping with a zero or negative weight is rejected at
\* construction, so no direction is ever drawn from a mapping that contains
\* a non-positive weight.
C13_NoDrawFromNonPositiveWeight ==
    (last.op = "step" /\ last.drew /\ last.forced = None)
        => PositiveWeights(directions)

\* C14: a restart in a Playing state yields exactly the initial game state:
\* pos = next_pos = (0, width div 2), no last head kind, not Won, the
\* application running and the configuration as it was.
C14_RestartIsInitial ==
    [][last'.op = "restart" =>
          /\ ~waiting_for_exit
          /\ pos' = Position(0, width \div 2)
          /\ next_pos' = Position(0, width \div 2)
          /\ head' = None
          /\ ~waiting_for_exit' /\ running'
          /\ length' = length /\ width' = width /\ directions' = directions]_vars

\* C14 witness: a restart has happened.
C14_Witness == last.op = "restart" /\ running /\ length >= 2

\* C16: on a turn that draws a head the ban set is extended, with the inverse
\* of each movement-banned direction, if and only if the head is lying on
\* that turn; on a truthful turn the draw uses the movement ban set alone.
C16_ExtensionIffLying ==
    (last.op = "step" /\ last.drew) =>
        /\ last.extended <=> last.lying
        /\ last.drawBanned =
              IF last.lying
              THEN last.banned \cup {InverseOf(d) : d \in last.banned}
              ELSE last.banned

\* C16 witness: a lying Repeat head extended a non-empty ban set.
C16_Witness ==
    /\ last.op = "step" /\ last.drew /\ head = "Repeat"
    /\ last.lying /\ last.drawBanned # last.banned

\* C17 (as claimed): a turn whose actual direction is Up or Down leaves the
\* staged position equal to the current one; Up and Down are never in the ban
\* set, and a forced Up or Down in a Playing state always draws a head.
\* Stated for length >= 2, where the start cell is not in the goal row.
C17_DecoyAlwaysDraws ==
    length >= 2 =>
        /\ (last.op = "step" /\ last.direction \in Decoys) => next_pos = pos
        /\ last.op = "step" => last.drawBanned \cap Decoys = {}
        /\ (last.op = "step" /\ last.forced \in Decoys) => last.drew

\* C17 (amended): as claimed, except that a forced Up or Down draws a head
\* only when the call does not commit the goal row: the call that commits
\* row length-1 reports Won and returns without drawing.
C17_DecoyDrawsUnlessWon ==
    /\ (last.op = "step" /\ last.direction \in Decoys) => next_pos = pos
    /\ last.op = "step" => last.drawBanned \cap Decoys = {}
    /\ (last.op = "step" /\ last.forced \in Decoys) =>
          IF last.victory
          THEN ~last.drew /\ waiting_for_exit /\ pos[AxisY] = length - 1
          ELSE last.drew /\ last.direction = last.forced

\* C17 witness: a forced Up at an edge drew a head and stayed in place.
C17_Witness ==
    /\ last.op = "step" /\ last.forced = "Up" /\ last.drew
    /\ last.banned # {} /\ next_pos = pos /\ last.lying

\* C18: on an unforced turn the announced direction is a real direction,
\* never the sentinel, and is not in the movement ban set of the turn; the
\* sentinel only appears on a turn with a forced direction.
C18_RandomTurnAnnouncesLegal ==
    /\ (last.op = "step" /\ last.drew /\ last.forced = None
            /\ last.error = NoError) =>
          /\ last.announced \in DirectionNames
          /\ last.announced \notin last.banned
    /\ last.announced = "LeaveTheField" => last.forced # None

\* C18 witness: an unforced lying turn at an edge announced a cardinal direction.
C18_Witness ==
    /\ last.op = "step" /\ last.forced = None /\ last.lying
    /\ last.banned # {} /\ last.announced \in Cardinals

Abs(n) == IF n < 0 THEN -n ELSE n

\* C20: in every reachable state next_pos equals pos or differs from it by
\* exactly one unit step along one axis; every make_step first commits the
\* staged position (pos becomes the old next_pos), the ban set is computed
\* from that committed position, and after a no-op forced turn pos = next_pos.
C20_StagedOneStepAhead ==
    /\ [](Abs(next_pos[AxisY] - pos[AxisY]) + Abs(next_pos[AxisX] - pos[AxisX]) <= 1)
    /\ []((last.op = "step" /\ last.forced \in last.banned) => pos = next_pos)
    /\ [][last'.op = "step" =>
            /\ pos' = next_pos
            /\ ~last'.victory =>
                  last'.banned = {d \in DirectionNames : ~InGrid(Target(next_pos, d))}]_vars

\* C20 witness: a sideways move is staged and not yet committed.
C20_Witness ==
    /\ last.op = "step" /\ last.direction \in {"Left", "Right"}
    /\ next_pos # pos /\ next_pos[AxisY] = pos[AxisY]

\* C15: flip_direction is a total involution on the six directions without
\* fixed points: it pairs Forward with Backward, Left with Right and Up with
\* Down, and applying it twice gives the direction back.
C15_FlipInvolution ==
    /\ flip_once # "idle" =>
          /\ flip_once \in DirectionNames
          /\ flip_once # flip_arg
          /\ <<flip_arg, flip_once>> \in InversePairs
    /\ flip_twice # "idle" => flip_twice = flip_arg

\* C15 witness: Down was flipped and flipped back.
C15_Witness == flip_arg = "Down" /\ flip_once = "Up" /\ flip_twice = "Down"

\* every Playing state the program reaches has the shape SpecForward starts from
PlayingStatesCovered == (running /\ ~waiting_for_exit) => PlayingShape

\* C19: from every Playing state a forced Forward whose call resolves a turn
\* is accepted as the actual direction, whatever head is drawn and also when
\* the lying extension bans Forward; the game is Won after at most length-1
\* forced Forward turns and one more step.
C19_ForcedForwardWins ==
    /\ []((last.op = "step" /\ ~last.victory) =>
            /\ last.drew /\ last.direction = "Forward" /\ last.error = NoError
            /\ next_pos = Target(pos, "Forward"))
    /\ [](~waiting_for_exit => fwdTurns <= length - 1)
    /\ [](fwdTurns <= length)
    /\ <>waiting_for_exit

\* C19 witness: a forced Forward was taken although the extended ban set
\* of its lying head contained Forward.
C19_Witness ==
    /\ last.op = "step" /\ last.forced = "Forward" /\ last.lying
    /\ "Forward" \in last.drawBanned /\ last.direction = "Forward"
    /\ next_pos[AxisY] = pos[AxisY] + 1

====
